---- MODULE Spec2Model ----
(***************************************************************************)
(* Server actions of the invoicing dashboard (src/dbtest.js):              *)
(* createInvoice, updateInvoice, deleteInvoice and authenticate.           *)
(*                                                                         *)
(* One invocation is in flight at a time.  An invoice action runs its      *)
(* synchronous prefix (validation, coercion, issuing the statement), is    *)
(* suspended at `await sql`, the database settles the statement, and the   *)
(* continuation runs to the end of the function.  The collaborators (SQL   *)
(* client, revalidatePath, redirect, signIn) are the environment: their    *)
(* outcomes are chosen nondeterministically.                               *)
(*                                                                         *)
(* Numbers are exact decimal fractions [n, d] (value n/d, d a power of     *)
(* ten, lowest such d), or NaN.  IEEE-754 rounding of the product is not   *)
(* modelled; every non-integer produced here is a non-integer in IEEE too. *)
(***************************************************************************)
EXTENDS Integers, Sequences, FiniteSets, TLC

VARIABLES
    invoices,     \* rows of the invoices table (external storage)
    nextId,       \* identifier the database gives to the next inserted row
    pc,           \* position of the invocation: idle, awaiting, settled,
                  \* signingIn, done
    call,         \* the invocation: function name, arguments, clock reading
    data,         \* validatedFields.data and the values derived from it
    inflight,     \* statements handed to the SQL client and not yet settled
    sqlOutcome,   \* how the awaited statement settled: none, resolved, rejected
    log,          \* collaborator calls of this invocation, in order
    result,       \* what the invocation gave its caller
    pre,          \* the table as it was when the invocation started
    signedIn,     \* how the awaited signIn settled
    calls         \* number of invocations started

vars == <<invoices, nextId, pc, call, data, inflight, sqlOutcome, log, result, pre,
          signedIn, calls>>

\* Invocations explored per behaviour.
MaxCalls == 1

----------------------------------------------------------------------------
(* JavaScript values *)

\* formData.get(name): <<>> is null (no such field), <<s>> is the string s.
Null == <<>>
Str(s) == <<s>>
IsNull(x) == x = <<>>

NaN == [nan |-> TRUE, n |-> 0, d |-> 1]

RECURSIVE Norm(_, _)
\* The fraction n/d with the smallest power-of-ten denominator.
Norm(n, d) ==
    IF d > 1 /\ n % 10 = 0 THEN Norm(n \div 10, d \div 10)
    ELSE [nan |-> FALSE, n |-> n, d |-> d]

Digits == <<"0", "1", "2", "3", "4", "5", "6", "7", "8", "9">>
IsDigit(c) == \E i \in 1..10 : Digits[i] = c
DigitVal(c) == (CHOOSE i \in 1..10 : Digits[i] = c) - 1

RECURSIVE TrimLeft(_)
TrimLeft(s) == IF s # <<>> /\ Head(s) = " " THEN TrimLeft(Tail(s)) ELSE s

RECURSIVE TrimRight(_)
TrimRight(s) ==
    IF s # <<>> /\ s[Len(s)] = " " THEN TrimRight(SubSeq(s, 1, Len(s) - 1)) ELSE s

RECURSIVE DecimalValue(_, _, _, _)
\* Reads digits with at most one "." ; n/d is the value read so far.
DecimalValue(s, n, d, seenDot) ==
    IF s = <<>> THEN Norm(n, d)
    ELSE IF IsDigit(Head(s))
         THEN DecimalValue(Tail(s), n * 10 + DigitVal(Head(s)),
                           IF seenDot THEN d * 10 ELSE d, seenDot)
    ELSE IF Head(s) = "." /\ ~seenDot
         THEN DecimalValue(Tail(s), n, d, TRUE)
    ELSE NaN

\* StringToNumber for whitespace, sign and decimal literals.
StringToNumber(s) ==
    LET t == TrimRight(TrimLeft(s))
        neg == t # <<>> /\ Head(t) = "-"
        u == IF t # <<>> /\ Head(t) \in {"-", "+"} THEN Tail(t) ELSE t
        v == DecimalValue(u, 0, 1, FALSE)
    IN  IF t = <<>> THEN Norm(0, 1)
        ELSE IF \A i \in 1..Len(u) : ~IsDigit(u[i]) THEN NaN
        ELSE IF v.nan THEN NaN
        ELSE IF neg THEN Norm(0 - v.n, v.d) ELSE v

\* Number(x) as z.coerce applies it to a form value: Number(null) is 0.
ToNumber(x) == IF IsNull(x) THEN Norm(0, 1) ELSE StringToNumber(x[1])

\* amount * k
Times(a, k) == Norm(a.n * k, a.d)

IsInteger(a) == ~a.nan /\ a.d = 1

----------------------------------------------------------------------------
(* FormSchema.omit({id, date}): the zod checks of the three form fields *)

StatusValues == {"pending", "paid"}

Fields == {"customerId", "amount", "status"}

\* z.string({invalid_type_error}): any string passes, the empty one too.
CustomerIdIssues(x) ==
    IF IsNull(x) THEN <<"Please select a customer">> ELSE <<>>

\* z.coerce.number(): Number(input), rejected only when that is NaN.
AmountIssues(x) ==
    IF ToNumber(x).nan THEN <<"Expected number, received nan">> ELSE <<>>

\* z.enum(['pending', 'paid'], {invalid_type_error})
StatusIssues(x) ==
    IF IsNull(x) THEN <<"Please select invoice status">>
    ELSE IF x[1] \notin StatusValues THEN <<"Invalid enum value">>
    ELSE <<>>

Issues(raw) ==
    [f \in Fields |->
        CASE f = "customerId" -> CustomerIdIssues(raw.customerId)
          [] f = "amount"     -> AmountIssues(raw.amount)
          [] f = "status"     -> StatusIssues(raw.status)]

\* safeParse: every field is checked; data exists only on success.
SafeParse(raw) ==
    LET issues == Issues(raw)
        ok == \A f \in Fields : issues[f] = <<>>
    IN  [success |-> ok,
         issues  |-> issues,
         data    |-> IF ok THEN <<[customerId |-> raw.customerId[1],
                                   amount     |-> ToNumber(raw.amount),
                                   status     |-> raw.status[1]]>>
                           ELSE <<>>]

\* error.format(): the (empty) top-level _errors list and, for each field that
\* has issues, that field's _errors list.
Format(issues) ==
    [k \in {"_errors"} \cup {f \in Fields : issues[f] # <<>>} |->
        IF k = "_errors" THEN <<>> ELSE issues[k]]

----------------------------------------------------------------------------
(* Values given to the caller *)

Pending == [kind |-> "pending"]
Void == [kind |-> "void"]
ValidationFailure(errors) ==
    [kind |-> "state", errors |-> <<errors>>, message |-> "Validation failed"]
Message(m) == [kind |-> "state", errors |-> <<>>, message |-> m]
Text(t) == [kind |-> "string", text |-> t]
Thrown(e) == [kind |-> "throw", error |-> e]

RedirectError(path) == [class |-> "NEXT_REDIRECT", type |-> path]
RevalidateError == [class |-> "Error", type |-> "revalidatePath"]

InvoicesPath == "/dashboard/invoices"

\* redirect() from next/navigation throws NEXT_REDIRECT: it does not return.
RedirectReturns == FALSE

(* Collaborator calls *)
SqlEvent(stmt) == [ev |-> "sql", stmt |-> stmt]
RevalidateEvent(path) == [ev |-> "revalidatePath", path |-> path]
RedirectEvent(path) == [ev |-> "redirect", path |-> path]
ConsoleLogEvent == [ev |-> "console.log", path |-> ""]

----------------------------------------------------------------------------
(* The three statements and what the database does with them *)

InsertStmt(customerId, amountInCents, status, date) ==
    [op |-> "INSERT", id |-> 0, customer_id |-> customerId,
     amount |-> amountInCents, status |-> status, date |-> date]

UpdateStmt(customerId, amountInCents, status, id) ==
    [op |-> "UPDATE", id |-> id, customer_id |-> customerId,
     amount |-> amountInCents, status |-> status, date |-> ""]

DeleteStmt(id) ==
    [op |-> "DELETE", id |-> id, customer_id |-> "",
     amount |-> NaN, status |-> "", date |-> ""]

\* INSERT INTO invoices (customer_id, amount, status, date) VALUES (...)
ExecInsert(rows, s, newId) ==
    rows \cup {[id |-> newId, customer_id |-> s.customer_id, amount |-> s.amount,
                status |-> s.status, date |-> s.date]}

\* UPDATE invoices SET customer_id, amount, status without the WHERE clause.
ExecUpdateAllRows(rows, s) ==
    {[r EXCEPT !.customer_id = s.customer_id, !.amount = s.amount,
               !.status = s.status] : r \in rows}

\* UPDATE invoices SET customer_id, amount, status WHERE id = ${id}
ExecUpdate(rows, s) ==
    {IF r.id = s.id
     THEN [r EXCEPT !.customer_id = s.customer_id, !.amount = s.amount,
                    !.status = s.status]
     ELSE r : r \in rows}

\* DELETE FROM invoices WHERE id = ${id}
ExecDelete(rows, s) == {r \in rows : r.id # s.id}

Exec(rows, s, newId) ==
    CASE s.op = "INSERT" -> ExecInsert(rows, s, newId)
      [] s.op = "UPDATE" -> ExecUpdate(rows, s)
      [] s.op = "DELETE" -> ExecDelete(rows, s)

----------------------------------------------------------------------------
(* The server clock *)

\* new Date().toISOString(): date, "T", time of day.
ToISOString(now) == <<now.date, "T", now.time>>

\* .split('T')[0]
BeforeT(iso) == iso[1]

----------------------------------------------------------------------------
(* The functions, split at their one await *)

NoData == <<>>

CreateMessage == "Database Error: failed to create invoice"
UpdateMessage == "Database error: failed to update invoice"
DeleteMessage == "Database error: failed to delete invoice"

\* createInvoice issuing its INSERT whatever safeParse answered.
CreateInvoiceEntryNoGuard(formData, now) ==
    LET validatedFields == SafeParse(formData)
        amount == ToNumber(formData.amount)
        stmt == InsertStmt(IF IsNull(formData.customerId) THEN ""
                           ELSE formData.customerId[1],
                           IF amount.nan THEN amount ELSE Times(amount, 100),
                           IF IsNull(formData.status) THEN "" ELSE formData.status[1],
                           BeforeT(ToISOString(now)))
    IN  IF ~validatedFields.success
        THEN [pc |-> "done", data |-> NoData, issue |-> <<stmt>>,
              result |-> ValidationFailure(Format(validatedFields.issues))]
        ELSE [pc |-> "awaiting", data |-> validatedFields.data, issue |-> <<stmt>>,
              result |-> Pending]

\* createInvoice up to `await sql`: safeParse, the early return, amountInCents
\* and date, the INSERT handed to the client.
CreateInvoiceEntry(formData, now) ==
    LET validatedFields == SafeParse(formData)
    IN  IF ~validatedFields.success
        THEN [pc |-> "done", data |-> NoData, issue |-> <<>>,
              result |-> ValidationFailure(Format(validatedFields.issues))]
        ELSE LET d == validatedFields.data[1]
                 amountInCents == Times(d.amount, 100)
                 date == BeforeT(ToISOString(now))
             IN  [pc |-> "awaiting", data |-> validatedFields.data,
                  issue |-> <<InsertStmt(d.customerId, amountInCents, d.status, date)>>,
                  result |-> Pending]

\* updateInvoice handing its UPDATE to the client twice.
UpdateInvoiceEntryTwice(id, formData) ==
    LET validatedFields == SafeParse(formData)
    IN  IF ~validatedFields.success
        THEN [pc |-> "done", data |-> NoData, issue |-> <<>>,
              result |-> ValidationFailure(Format(validatedFields.issues))]
        ELSE LET d == validatedFields.data[1]
                 stmt == UpdateStmt(d.customerId, Times(d.amount, 100), d.status, id)
             IN  [pc |-> "awaiting", data |-> validatedFields.data,
                  issue |-> <<stmt, stmt>>, result |-> Pending]

\* updateInvoice up to `await sql`.
UpdateInvoiceEntry(id, formData) ==
    LET validatedFields == SafeParse(formData)
    IN  IF ~validatedFields.success
        THEN [pc |-> "done", data |-> NoData, issue |-> <<>>,
              result |-> ValidationFailure(Format(validatedFields.issues))]
        ELSE LET d == validatedFields.data[1]
                 amountInCents == Times(d.amount, 100)
             IN  [pc |-> "awaiting", data |-> validatedFields.data,
                  issue |-> <<UpdateStmt(d.customerId, amountInCents, d.status, id)>>,
                  result |-> Pending]

\* deleteInvoice up to `await sql`: no validation.
DeleteInvoiceEntry(id) ==
    [pc |-> "awaiting", data |-> NoData, issue |-> <<DeleteStmt(id)>>,
     result |-> Pending]

\* createInvoice after the await with the catch block falling through.
CreateInvoiceAfterAwaitFallThrough(settled, revalidate) ==
    IF revalidate = "throws"
    THEN [events |-> <<RevalidateEvent(InvoicesPath)>>,
          result |-> Thrown(RevalidateError)]
    ELSE [events |-> <<RevalidateEvent(InvoicesPath), RedirectEvent(InvoicesPath)>>,
          result |-> Thrown(RedirectError(InvoicesPath))]

\* createInvoice after the await with redirect before revalidatePath.
CreateInvoiceAfterAwaitRedirectFirst(settled, revalidate) ==
    IF settled = "rejected"
    THEN [events |-> <<>>, result |-> Message(CreateMessage)]
    ELSE [events |-> <<RedirectEvent(InvoicesPath)>>,
          result |-> Thrown(RedirectError(InvoicesPath))]

\* createInvoice after the await: the catch block, else revalidatePath and
\* redirect, and the logging below redirect if redirect were to return.
CreateInvoiceAfterAwait(settled, revalidate) ==
    IF settled = "rejected"
    THEN [events |-> <<>>, result |-> Message(CreateMessage)]
    ELSE IF revalidate = "throws"
    THEN [events |-> <<RevalidateEvent(InvoicesPath)>>,
          result |-> Thrown(RevalidateError)]
    ELSE IF ~RedirectReturns
    THEN [events |-> <<RevalidateEvent(InvoicesPath), RedirectEvent(InvoicesPath)>>,
          result |-> Thrown(RedirectError(InvoicesPath))]
    ELSE [events |-> <<RevalidateEvent(InvoicesPath), RedirectEvent(InvoicesPath),
                       ConsoleLogEvent>>,
          result |-> Void]

\* updateInvoice after the await.
UpdateInvoiceAfterAwait(settled, revalidate) ==
    IF settled = "rejected"
    THEN [events |-> <<>>, result |-> Message(UpdateMessage)]
    ELSE IF revalidate = "throws"
    THEN [events |-> <<RevalidateEvent(InvoicesPath)>>,
          result |-> Thrown(RevalidateError)]
    ELSE [events |-> <<RevalidateEvent(InvoicesPath), RedirectEvent(InvoicesPath)>>,
          result |-> Thrown(RedirectError(InvoicesPath))]

\* deleteInvoice after the await: revalidatePath is inside the try block, so
\* the catch block also takes what revalidatePath throws.
DeleteInvoiceAfterAwait(settled, revalidate) ==
    IF settled = "rejected"
    THEN [events |-> <<>>, result |-> Message(DeleteMessage)]
    ELSE IF revalidate = "throws"
    THEN [events |-> <<RevalidateEvent(InvoicesPath)>>,
          result |-> Message(DeleteMessage)]
    ELSE [events |-> <<RevalidateEvent(InvoicesPath)>>, result |-> Void]

\* authenticate with every AuthError reported as invalid credentials.
AuthenticateAfterAwaitOneMessage(settled) ==
    IF settled.kind = "resolved" THEN Void
    ELSE IF settled.error.class = "AuthError" THEN Text("Invalid credentials.")
    ELSE Thrown(settled.error)

\* authenticate after `await signIn`: the catch block.
AuthenticateAfterAwait(settled) ==
    IF settled.kind = "resolved" THEN Void
    ELSE IF settled.error.class = "AuthError"
    THEN IF settled.error.type = "CredentialsSignin"
         THEN Text("Invalid credentials.")
         ELSE Text("Something went wrong.")
    ELSE Thrown(settled.error)

----------------------------------------------------------------------------
(* What the environment supplies *)

CustomerIdInputs == {Null, Str(""), Str("c1")}

AmountInputs ==
    {Null, Str(<<>>), Str(<<"a", "b", "c">>), Str(<<"5", "0">>),
     Str(<<"1", "2", ".", "3", "4">>), Str(<<"1", "2", ".", "3", "4", "5">>)}

StatusInputs == {Null, Str("pending"), Str("paid"), Str("overdue")}

FormDatas ==
    [customerId : CustomerIdInputs, amount : AmountInputs, status : StatusInputs]

Nows == {[date |-> "2024-05-01", time |-> "23:59:59.999Z"],
         [date |-> "2024-05-02", time |-> "00:00:00.000Z"]}

NoNow == [date |-> "", time |-> ""]

RevalidateOutcomes == {"returns", "throws"}

SignInOutcomes ==
    {[kind |-> "resolved", error |-> [class |-> "", type |-> ""]]}
    \cup {[kind |-> "rejected", error |-> [class |-> "AuthError", type |-> t]] :
            t \in {"CredentialsSignin", "CallbackRouteError", "AccessDenied"}}
    \cup {[kind |-> "rejected", error |-> [class |-> c, type |-> ""]] :
            c \in {"NEXT_REDIRECT", "TypeError"}}

NotSignedIn == [kind |-> "none", error |-> [class |-> "", type |-> ""]]

\* Rows that may be in the table before the process starts.
SeedRows ==
    <<[id |-> 1, customer_id |-> "c1", amount |-> Norm(5000, 1), status |-> "pending",
       date |-> "2024-01-01"],
      [id |-> 2, customer_id |-> "c2", amount |-> Norm(999, 1), status |-> "paid",
       date |-> "2024-01-02"]>>

\* The time of the clock reading in `call` when the entry read the clock.
ClockRead(e, now) == IF e.pc = "awaiting" THEN now ELSE NoNow

NoCall == [fn |-> "", id |-> 0, formData |-> <<>>, now |-> NoNow]

SqlEvents(stmts) == [i \in 1..Len(stmts) |-> SqlEvent(stmts[i])]

----------------------------------------------------------------------------
Init ==
    /\ \E k \in 0..Len(SeedRows) : invoices = {SeedRows[i] : i \in 1..k}
    /\ nextId = Len(SeedRows) + 1
    /\ pc = "idle"
    /\ call = NoCall
    /\ data = NoData
    /\ inflight = <<>>
    /\ sqlOutcome = "none"
    /\ log = <<>>
    /\ result = Pending
    /\ pre = invoices
    /\ signedIn = NotSignedIn
    /\ calls = 0

\* The synchronous prefix of an invoice action, as its entry `e` describes it.
Start(fn, id, formData, now, e) ==
    /\ calls' = calls + 1
    /\ call' = [fn |-> fn, id |-> id, formData |-> formData, now |-> now]
    /\ pre' = invoices
    /\ pc' = e.pc
    /\ data' = e.data
    /\ inflight' = e.issue
    /\ log' = SqlEvents(e.issue)
    /\ result' = e.result
    /\ sqlOutcome' = "none"
    /\ UNCHANGED <<invoices, nextId, signedIn>>

CreateInvoice ==
    /\ pc = "idle"
    /\ calls < MaxCalls
    /\ \E formData \in FormDatas, now \in Nows :
          Start("createInvoice", 0, formData,
                ClockRead(CreateInvoiceEntry(formData, now), now),
                CreateInvoiceEntry(formData, now))

\* The id comes from the caller; nextId is an id no row has.
UpdateInvoice ==
    /\ pc = "idle"
    /\ calls < MaxCalls
    /\ \E id \in 1..nextId, formData \in FormDatas :
          Start("updateInvoice", id, formData, NoNow, UpdateInvoiceEntry(id, formData))

DeleteInvoice ==
    /\ pc = "idle"
    /\ calls < MaxCalls
    /\ \E id \in 1..nextId :
          Start("deleteInvoice", id, <<>>, NoNow, DeleteInvoiceEntry(id))

\* The database carries out the awaited statement.
SqlResolve ==
    /\ pc = "awaiting"
    /\ inflight # <<>>
    /\ invoices' = Exec(invoices, Head(inflight), nextId)
    /\ nextId' = IF Head(inflight).op = "INSERT" THEN nextId + 1 ELSE nextId
    /\ inflight' = Tail(inflight)
    /\ sqlOutcome' = "resolved"
    /\ pc' = "settled"
    /\ UNCHANGED <<call, data, log, result, pre, signedIn, calls>>

\* The statement fails (database unreachable, constraint violated): no effect.
SqlReject ==
    /\ pc = "awaiting"
    /\ inflight # <<>>
    /\ inflight' = Tail(inflight)
    /\ sqlOutcome' = "rejected"
    /\ pc' = "settled"
    /\ UNCHANGED <<invoices, nextId, call, data, log, result, pre, signedIn, calls>>

\* The rest of an invoice action, as its continuation `k` describes it.
Finish(k) ==
    /\ log' = log \o k.events
    /\ result' = k.result
    /\ pc' = "done"
    /\ UNCHANGED <<invoices, nextId, call, data, inflight, sqlOutcome, pre, signedIn,
                   calls>>

CreateInvoiceResume ==
    /\ pc = "settled"
    /\ call.fn = "createInvoice"
    /\ \E revalidate \in RevalidateOutcomes :
          Finish(CreateInvoiceAfterAwait(sqlOutcome, revalidate))

UpdateInvoiceResume ==
    /\ pc = "settled"
    /\ call.fn = "updateInvoice"
    /\ \E revalidate \in RevalidateOutcomes :
          Finish(UpdateInvoiceAfterAwait(sqlOutcome, revalidate))

DeleteInvoiceResume ==
    /\ pc = "settled"
    /\ call.fn = "deleteInvoice"
    /\ \E revalidate \in RevalidateOutcomes :
          Finish(DeleteInvoiceAfterAwait(sqlOutcome, revalidate))

Authenticate ==
    /\ pc = "idle"
    /\ calls < MaxCalls
    /\ calls' = calls + 1
    /\ call' = [fn |-> "authenticate", id |-> 0, formData |-> <<>>, now |-> NoNow]
    /\ pre' = invoices
    /\ pc' = "signingIn"
    /\ UNCHANGED <<invoices, nextId, data, inflight, sqlOutcome, log, result, signedIn>>

AuthenticateResume ==
    /\ pc = "signingIn"
    /\ \E outcome \in SignInOutcomes :
          /\ signedIn' = outcome
          /\ result' = AuthenticateAfterAwait(outcome)
    /\ pc' = "done"
    /\ UNCHANGED <<invoices, nextId, call, data, inflight, sqlOutcome, log, pre, calls>>

\* The caller has the outcome; the next request may start.
Return ==
    /\ pc = "done"
    /\ pc' = "idle"
    /\ call' = NoCall
    /\ data' = NoData
    /\ inflight' = <<>>
    /\ sqlOutcome' = "none"
    /\ log' = <<>>
    /\ result' = Pending
    /\ pre' = invoices
    /\ signedIn' = NotSignedIn
    /\ UNCHANGED <<invoices, nextId, calls>>

Next ==
    \/ CreateInvoice
    \/ UpdateInvoice
    \/ DeleteInvoice
    \/ SqlResolve
    \/ SqlReject
    \/ CreateInvoiceResume
    \/ UpdateInvoiceResume
    \/ DeleteInvoiceResume
    \/ Authenticate
    \/ AuthenticateResume
    \/ Return

Spec == Init /\ [][Next]_vars

----------------------------------------------------------------------------
(* Properties *)

FormFns == {"createInvoice", "updateInvoice"}
InvoiceFns == FormFns \cup {"deleteInvoice"}

Logged(ev) == {i \in DOMAIN log : log[i].ev = ev}
NumSql == Cardinality(Logged("sql"))

IsValidationFailure(r) == r.kind = "state" /\ r.errors # <<>>

\* round(a): the nearest integer, halves towards +infinity.
Round(a) == Norm((2 * a.n + a.d) \div (2 * a.d), 1)

\* The fields of a form that the validation rules of the specification reject.
OffendingFields(fd) ==
    {f \in Fields :
        \/ f = "customerId" /\ (IsNull(fd.customerId) \/ fd.customerId = Str(""))
        \/ f = "amount" /\ (IsNull(fd.amount) \/ fd.amount = Str(<<>>)
                            \/ StringToNumber(fd.amount[1]).nan)
        \/ f = "status" /\ (IsNull(fd.status) \/ fd.status[1] \notin {"pending", "paid"})}

\* C1: createInvoice and updateInvoice reject every input whose customerId is
\* missing or empty, whose amount is missing or not numeric, or whose status is
\* missing or not pending/paid: the result is a validation failure with a
\* non-empty message list for each offending field, and no statement is issued.
C1_RejectsOffendingInput ==
    (call.fn \in FormFns /\ OffendingFields(call.formData) # {}) =>
        /\ pc = "done"
        /\ IsValidationFailure(result)
        /\ \A f \in OffendingFields(call.formData) :
              f \in DOMAIN result.errors[1] /\ result.errors[1][f] # <<>>
        /\ log = <<>>

\* C2: the amount handed to the INSERT or UPDATE statement is the integer
\* round(amount * 100), and no non-integer amount is stored by the action.
C2_IntegerCents ==
    call.fn \in FormFns =>
        /\ \A i \in Logged("sql") :
              /\ IsInteger(log[i].stmt.amount)
              /\ log[i].stmt.amount = Round(Times(ToNumber(call.formData.amount), 100))
        /\ \A r \in invoices \ pre : IsInteger(r.amount)

\* C3: when the statement of createInvoice, updateInvoice or deleteInvoice
\* fails, the action returns exactly its fixed message (nothing is thrown to
\* the caller), the table is as before the call, and neither revalidatePath
\* nor redirect has been called.
C3_FailedStatement ==
    (pc = "done" /\ call.fn \in InvoiceFns /\ sqlOutcome = "rejected") =>
        /\ result.kind = "state"
        /\ result.errors = <<>>
        /\ result.message =
              CASE call.fn = "createInvoice" -> "Database Error: failed to create invoice"
                [] call.fn = "updateInvoice" -> "Database error: failed to update invoice"
                [] call.fn = "deleteInvoice" -> "Database error: failed to delete invoice"
        /\ invoices = pre
        /\ Logged("revalidatePath") = {}
        /\ Logged("redirect") = {}

C3_Witness ==
    /\ pc = "done"
    /\ call.fn = "updateInvoice"
    /\ sqlOutcome = "rejected"
    /\ \E r \in pre : r.id = call.id

\* C4: when createInvoice or updateInvoice returns a validation failure, no
\* statement was issued, the table is as before the call, and neither
\* revalidatePath nor redirect was called in that invocation.
C4_ValidationFailureFrame ==
    (pc = "done" /\ call.fn \in FormFns /\ IsValidationFailure(result)) =>
        /\ log = <<>>
        /\ inflight = <<>>
        /\ sqlOutcome = "none"
        /\ invoices = pre

C4_Witness ==
    /\ pc = "done"
    /\ call.fn = "createInvoice"
    /\ IsValidationFailure(result)
    /\ call.formData.status = Str("overdue")
    /\ pre # {}

\* The row a resolved INSERT of this createInvoice call has to add.
CreatedRowOk(r) ==
    /\ r \notin pre
    /\ invoices = pre \cup {r}
    /\ Cardinality(invoices) = Cardinality(pre) + 1
    /\ r.customer_id = call.formData.customerId[1]
    /\ r.status = call.formData.status[1]
    /\ r.date = call.now.date
    /\ r.amount = log[1].stmt.amount
    /\ log[1].stmt = InsertStmt(r.customer_id, r.amount, r.status, r.date)

C6_UpdateFrame ==
    (pc = "done" /\ call.fn = "updateInvoice" /\ sqlOutcome = "resolved") =>
        /\ \A r \in pre : r.id # call.id => r \in invoices
        /\ \A q \in invoices : q.id # call.id => q \in pre
        /\ \A r \in pre : r.id = call.id =>
              \E q \in invoices :
                  /\ q.id = r.id
                  /\ q.date = r.date
                  /\ q.customer_id = call.formData.customerId[1]
                  /\ q.status = call.formData.status[1]
                  /\ q.amount = log[1].stmt.amount
        /\ \A q \in invoices : q.id = call.id =>
              \E r \in pre : r.id = q.id /\ r.date = q.date
        /\ Cardinality(invoices) = Cardinality(pre)
        /\ (\A r \in pre : r.id # call.id) => invoices = pre
        /\ result.kind # "state"
        /\ log[2] = RevalidateEvent("/dashboard/invoices")
        /\ result # Thrown(RevalidateError) =>
              /\ log[3] = RedirectEvent("/dashboard/invoices")
              /\ result = Thrown(RedirectError("/dashboard/invoices"))

C6_Witness ==
    /\ pc = "done"
    /\ call.fn = "updateInvoice"
    /\ sqlOutcome = "resolved"
    /\ result = Thrown(RedirectError("/dashboard/invoices"))
    /\ Cardinality(pre) = 2
    /\ \E r \in pre : r.id = call.id /\ r \notin invoices

\* C7: a deleteInvoice(id) whose DELETE succeeds removes exactly the rows with
\* that id, returns no error result, calls revalidatePath('/dashboard/invoices')
\* and never redirect, also when no row has that id.
C7_DeleteSucceeds ==
    (pc = "done" /\ call.fn = "deleteInvoice" /\ sqlOutcome = "resolved") =>
        /\ invoices = {r \in pre : r.id # call.id}
        /\ result = Void
        /\ log[2] = RevalidateEvent("/dashboard/invoices")
        /\ Logged("redirect") = {}

\* C8: authenticate returns 'Invalid credentials.' for an AuthError of type
\* CredentialsSignin, 'Something went wrong.' for any other AuthError, and
\* rethrows unchanged whatever else signIn throws.
C8_AuthenticateMapping ==
    (pc = "done" /\ call.fn = "authenticate") =>
        /\ (signedIn.kind = "rejected" /\ signedIn.error.class = "AuthError"
                /\ signedIn.error.type = "CredentialsSignin")
              => result = Text("Invalid credentials.")
        /\ (signedIn.kind = "rejected" /\ signedIn.error.class = "AuthError"
                /\ signedIn.error.type # "CredentialsSignin")
              => result = Text("Something went wrong.")
        /\ (signedIn.kind = "rejected" /\ signedIn.error.class # "AuthError")
              => result = Thrown(signedIn.error)

C8_Witness ==
    /\ pc = "done"
    /\ call.fn = "authenticate"
    /\ signedIn.kind = "rejected"
    /\ signedIn.error.class = "AuthError"
    /\ signedIn.error.type = "AccessDenied"

\* C9: an invocation of createInvoice, updateInvoice or deleteInvoice issues at
\* most one statement: exactly one once validation has passed, and none after
\* a statement has failed.
C9_OneStatement ==
    call.fn \in InvoiceFns =>
        /\ NumSql <= 1
        /\ (pc \in {"awaiting", "settled"} \/ (pc = "done" /\ ~IsValidationFailure(result)))
              => NumSql = 1
        /\ pc = "awaiting" => Len(inflight) = 1
        /\ sqlOutcome # "none" => inflight = <<>>

C9_Witness ==
    /\ pc = "done"
    /\ call.fn = "createInvoice"
    /\ sqlOutcome = "rejected"
    /\ NumSql = 1

\* C10: deleteInvoice returns 'Database error: failed to delete invoice' only
\* when its DELETE failed, so the table is then as it was before the call.
C10_DeleteMessageMeansNoChange ==
    (pc = "done" /\ call.fn = "deleteInvoice" /\ result.kind = "state"
        /\ result.message = "Database error: failed to delete invoice") =>
        /\ sqlOutcome = "rejected"
        /\ invoices = pre

====
